---- MODULE Spec2Model ----
(***************************************************************************)
(* Model of the etherscan contract fetcher: the fetch command of the CLI   *)
(* (src/unnamed/part_000) driving EtherscanClient (src/etherscan.js):      *)
(* fetchContractSource, isContract, parseSourceCode and saveContractFiles, *)
(* against a network and a file system that answer nondeterministically.   *)
(*                                                                         *)
(* Representation of JavaScript values:                                    *)
(*  - a message text is a sequence of words, a source string or a path is  *)
(*    a sequence of character tokens; <<>> is the empty string '';         *)
(*  - Undefined is the value of an absent field of a text/token type and   *)
(*    "undefined" the value of an absent field of an atomic string type;   *)
(*  - a thrown Error is a record [kind, detail]: kind names the message    *)
(*    the code throws (see the Err* definitions).                          *)
(***************************************************************************)
EXTENDS Naturals, Sequences, FiniteSets

VARIABLES
    pc,          \* position of the fetch command: which await it is suspended at
    run,         \* number of invocations of the fetch command started so far
    chainId,     \* options.chain, parsed
    apiKey,      \* this.apiKey: the -k option ("undefined" when not given)
    requests,    \* actions of the HTTP requests issued by this invocation, in order
    resp,        \* the getsourcecode response this invocation received
    probe,       \* the eth_getCode response this invocation received
    contract,    \* the object fetchContractSource works on / returns
    outcome,     \* how fetchContractSource ended: Pending, Success or the error thrown
    files,       \* saveContractFiles: the decoded file list
    idx,         \* saveContractFiles: index of the next file of the for loop
    savedFiles,  \* saveContractFiles: the savedFiles array
    saveResult,  \* how saveContractFiles ended: "pending", "returned" or the I/O error code
    wlog,        \* file-system calls that succeeded in this invocation, in order
    fsDirs,      \* the disk: set of directories (absolute, normalised paths)
    fsFiles,     \* the disk: function from the paths of the regular files to contents
    fsAtStart,   \* the disk when this invocation started: [dirs, files]
    exitCode     \* the process's exit status ("running" until it ends)

vars == <<pc, run, chainId, apiKey, requests, resp, probe, contract, outcome,
          files, idx, savedFiles, saveResult, wlog, fsDirs, fsFiles, fsAtStart,
          exitCode>>

\* Number of successive invocations of the fetch command against the same disk.
MaxRuns == 2

-----------------------------------------------------------------------------
(* JavaScript values *)

Undefined == <<"%undefined">>

\* Variant: every value is taken for falsy.
Falsy_Any(s) == TRUE

\* !x for a text or token string: undefined and '' are falsy.
Falsy(s) == s = <<>> \/ s = Undefined

\* !x for an atomic string.
FalsyStr(s) == s = "" \/ s = "undefined"

\* String.prototype.includes on word sequences.
Includes(s, sub) ==
    \E i \in 1..(Len(s) + 1) :
        /\ i + Len(sub) - 1 <= Len(s)
        /\ SubSeq(s, i, i + Len(sub) - 1) = sub

\* String.prototype.startsWith.
StartsWith(s, pre) == Len(s) >= Len(pre) /\ SubSeq(s, 1, Len(pre)) = pre

-----------------------------------------------------------------------------
(* The chain registry *)

CHAIN_CONFIGS ==
    {1, 56, 137, 42161, 10, 43114, 250, 8453, 81457, 534352, 59144, 11155111, 5}

\* Chain ids the command is invoked with: registered ones and others.
ChainIds == {1, 0, 999}

-----------------------------------------------------------------------------
(* Source strings, JSON texts and paths as token sequences *)

Digits == {"0", "8"}

\* The character class [\d.] of the wrapper-directory pattern.
DigitOrDot == Digits \cup {"."}

\* The JSON texts that can stand between the braces of a source string, each
\* with the object JSON.parse builds from "{" + text + "}".  sources.pairs is
\* the members of the "sources" object in the order of the text.
Obj(content) == [kind |-> "object", content |-> content]

Src(pairs) == [kind |-> "object", pairs |-> pairs]

NoSources == [kind |-> "undefined", pairs |-> <<>>]

KeyContract == <<"Contract.sol">>
KeyA == <<"a">>
KeyNested == <<"a", "/", "b">>
KeyWrapped == <<"solc_", "0", ".", "8", "/", "Contract.sol">>
KeyWrappedNested == <<"solc_", "0", ".", "8", "/", "a", "/", "b">>
KeyTwiceWrapped == <<"solc_", "0", "/", "solc_", "8", "/", "a">>
KeyNoVersion == <<"solc_", "/", "a">>
KeyInnerWrapper == <<"a", "/", "solc_", "0", "/", "b">>
KeyEscape == <<".", ".", "/", "a">>
KeyWrappedEscape == <<"solc_", "0", "/", ".", ".", "/", ".", ".", "/", "b">>
KeyAbsolute == <<"/", "a">>
KeyMetadata == <<"metadata.json">>
KeyIndex8 == <<"8">>
KeyIndex0 == <<"0">>

JsonBody ==
    [ jWrapped    |-> [language |-> "Solidity",
                       sources |-> Src(<< [key |-> KeyWrapped, entry |-> Obj(<<"X">>)] >>)],
      jTwoFiles   |-> [language |-> "Solidity",
                       sources |-> Src(<< [key |-> KeyA, entry |-> Obj(<<"X">>)],
                                          [key |-> <<"b">>, entry |-> Obj(Undefined)] >>)],
      jNested     |-> [language |-> "Solidity",
                       sources |-> Src(<< [key |-> KeyWrappedNested, entry |-> Obj(<<"Y">>)],
                                          [key |-> KeyInnerWrapper, entry |-> Obj(<<"X">>)] >>)],
      jFileThenDir |-> [language |-> "Solidity",
                       sources |-> Src(<< [key |-> KeyA, entry |-> Obj(<<"Y">>)],
                                          [key |-> KeyNested, entry |-> Obj(<<"X">>)] >>)],
      jSamePath   |-> [language |-> "Solidity",
                       sources |-> Src(<< [key |-> KeyContract, entry |-> Obj(<<"X">>)],
                                          [key |-> KeyWrapped, entry |-> Obj(<<"Y">>)] >>)],
      jEscape     |-> [language |-> "Solidity",
                       sources |-> Src(<< [key |-> KeyEscape, entry |-> Obj(<<"X">>)] >>)],
      jEscape2    |-> [language |-> "undefined",
                       sources |-> Src(<< [key |-> KeyWrappedEscape, entry |-> Obj(<<"Y">>)],
                                          [key |-> KeyAbsolute, entry |-> Obj(<<"X">>)] >>)],
      jOddKeys    |-> [language |-> "Solidity",
                       sources |-> Src(<< [key |-> KeyTwiceWrapped, entry |-> Obj(<<"X">>)],
                                          [key |-> KeyNoVersion, entry |-> Obj(<<>>)] >>)],
      jIndexKeys  |-> [language |-> "Solidity",
                       sources |-> Src(<< [key |-> <<"b">>, entry |-> Obj(<<"X">>)],
                                          [key |-> KeyIndex8, entry |-> Obj(<<"Y">>)],
                                          [key |-> KeyIndex0, entry |-> Obj(<<"X">>)],
                                          [key |-> <<"b">>, entry |-> Obj(<<"Y">>)] >>)],
      jMetadata   |-> [language |-> "Solidity",
                       sources |-> Src(<< [key |-> KeyMetadata, entry |-> Obj(<<"X">>)] >>)],
      jNullEntry  |-> [language |-> "Solidity",
                       sources |-> Src(<< [key |-> KeyA, entry |-> [kind |-> "null", content |-> Undefined]] >>)],
      jStringEntry |-> [language |-> "Solidity",
                       sources |-> Src(<< [key |-> KeyA, entry |-> [kind |-> "string", content |-> Undefined]] >>)],
      jNoSources  |-> [language |-> "Solidity", sources |-> NoSources],
      jVyper      |-> [language |-> "Vyper",
                       sources |-> Src(<< [key |-> KeyNested, entry |-> Obj(<<"X">>)] >>)] ]

\* "jGarbage" stands for a text that is no JSON.
BodyTokens == DOMAIN JsonBody \cup {"jGarbage"}

\* JSON.parse of a token string: [ok, value]; ok = FALSE is the SyntaxError.
EmptyObject == [language |-> "undefined", sources |-> NoSources]

JSONparse(text) ==
    IF text = <<"{", "}">>
    THEN [ok |-> TRUE, value |-> EmptyObject]
    ELSE IF Len(text) = 3 /\ text[1] = "{" /\ text[3] = "}" /\ text[2] \in DOMAIN JsonBody
    THEN [ok |-> TRUE, value |-> JsonBody[text[2]]]
    ELSE [ok |-> FALSE, value |-> EmptyObject]

\* sourceCode.slice(1, -1)
Slice1(s) == SubSeq(s, 2, Len(s) - 1)

\* Value of a decimal digit string.
RECURSIVE NumVal(_)
NumVal(k) ==
    IF k = <<>> THEN 0
    ELSE NumVal(SubSeq(k, 1, Len(k) - 1)) * 10 + (IF k[Len(k)] = "8" THEN 8 ELSE 0)

\* A property name that is an array index ("0", "8", "80", not "08").
IsIndexKey(k) ==
    /\ Len(k) >= 1
    /\ \A i \in DOMAIN k : k[i] \in Digits
    /\ (Len(k) > 1 => k[1] # "0")

RECURSIVE SortIndexKeys(_)
SortIndexKeys(ks) ==
    IF ks = {} THEN <<>>
    ELSE LET m == CHOOSE k \in ks : \A o \in ks : NumVal(k) <= NumVal(o)
         IN  <<m>> \o SortIndexKeys(ks \ {m})

\* Object.entries of the object JSON.parse builds from the members `pairs`:
\* a repeated name keeps its first position and its last value; array-index
\* names come first, in ascending order, then the rest in insertion order.
ObjectEntries(pairs) ==
    LET firsts == SelectSeq([i \in DOMAIN pairs |-> i],
                            LAMBDA i : \A j \in 1..(i - 1) : pairs[j].key # pairs[i].key)
        last(k) == CHOOSE j \in DOMAIN pairs :
                      /\ pairs[j].key = k
                      /\ \A l \in DOMAIN pairs : pairs[l].key = k => l <= j
        names == [n \in DOMAIN firsts |-> pairs[firsts[n]].key]
        idxNames == SortIndexKeys({names[n] : n \in {m \in DOMAIN names : IsIndexKey(names[m])}})
        strNames == SelectSeq(names, LAMBDA k : ~IsIndexKey(k))
        order == idxNames \o strNames
    IN  [n \in DOMAIN order |-> [key |-> order[n], entry |-> pairs[last(order[n])].entry]]

\* Length of the match of /^solc_[\d.]+\// at the start of p (0: no match).
WrapperMatch(p) ==
    IF Len(p) >= 3 /\ p[1] = "solc_"
    THEN LET n == CHOOSE k \in 0..(Len(p) - 1) :
                      /\ \A j \in 2..(k + 1) : p[j] \in DigitOrDot
                      /\ (k + 2 > Len(p) \/ p[k + 2] \notin DigitOrDot)
         IN  IF n >= 1 /\ n + 2 <= Len(p) /\ p[n + 2] = "/" THEN n + 2 ELSE 0
    ELSE 0

\* Variant: everything up to the last slash is taken for wrapper directories.
CleanPath_Basename(filePath) ==
    LET slashes == {i \in DOMAIN filePath : filePath[i] = "/"}
        last == CHOOSE i \in slashes : \A j \in slashes : j <= i
    IN  IF slashes = {} THEN filePath ELSE SubSeq(filePath, last + 1, Len(filePath))

\* cleanPath: the key with the match of the pattern replaced by ''.
CleanPath(filePath) ==
    SubSeq(filePath, WrapperMatch(filePath) + 1, Len(filePath))

\* content.content || ''  (the property read throws on null)
EntryThrows(entry) == entry.kind = "null"

EntryContent(entry) ==
    IF entry.kind = "object" /\ ~Falsy(entry.content) THEN entry.content ELSE <<>>

\* The for loop over Object.entries(sources): the files pushed.
DecodeEntries(entries) ==
    [n \in DOMAIN entries |->
        [path |-> CleanPath(entries[n].key), content |-> EntryContent(entries[n].entry)]]

LoopThrows(entries) == \E n \in DOMAIN entries : EntryThrows(entries[n].entry)

SingleFile(sourceCode) == << [path |-> KeyContract, content |-> sourceCode] >>

parseSourceCode(sourceCode) ==
    IF StartsWith(sourceCode, <<"{", "{">>)
    THEN LET p == JSONparse(Slice1(sourceCode))
             entries == ObjectEntries(p.value.sources.pairs)
         IN  IF p.ok /\ ~LoopThrows(entries)
             THEN DecodeEntries(entries)
             ELSE SingleFile(sourceCode)
    ELSE IF StartsWith(sourceCode, <<"{">>)
    THEN LET p == JSONparse(sourceCode)
             entries == ObjectEntries(p.value.sources.pairs)
         IN  IF /\ p.ok
                /\ p.value.language = "Solidity"
                /\ p.value.sources.kind = "object"
                /\ ~LoopThrows(entries)
             THEN DecodeEntries(entries)
             ELSE SingleFile(sourceCode)
    ELSE SingleFile(sourceCode)

-----------------------------------------------------------------------------
(* Paths: a path is the sequence of its segments, a segment a token string *)

Dot == <<".">>
DotDot == <<".", ".">>

\* filePath.split('/')
RECURSIVE Split(_)
Split(p) ==
    IF \A i \in DOMAIN p : p[i] # "/"
    THEN <<p>>
    ELSE LET i == CHOOSE j \in DOMAIN p : p[j] = "/" /\ \A l \in 1..(j - 1) : p[l] # "/"
         IN  <<SubSeq(p, 1, i - 1)>> \o Split(SubSeq(p, i + 1, Len(p)))

\* path.normalize of an absolute path given as its raw segments: '' and '.'
\* segments are dropped, '..' removes the segment before it (none at the root).
RECURSIVE Normalize(_)
Normalize(segs) ==
    IF segs = <<>> THEN <<>>
    ELSE LET init == Normalize(SubSeq(segs, 1, Len(segs) - 1))
             s == segs[Len(segs)]
         IN  IF s = <<>> \/ s = Dot THEN init
             ELSE IF s = DotDot
                  THEN (IF init = <<>> THEN <<>> ELSE SubSeq(init, 1, Len(init) - 1))
                  ELSE Append(init, s)

\* path.join(localPath, relative) for an absolute, normalised localPath.
PathJoin(localPath, relative) == Normalize(localPath \o Split(relative))

\* path.dirname of an absolute, normalised path.
DirName(p) == IF p = <<>> THEN <<>> ELSE SubSeq(p, 1, Len(p) - 1)

IsPrefix(p, q) == Len(p) <= Len(q) /\ SubSeq(q, 1, Len(p)) = p

\* The working directory and path.resolve(options.output).
Cwd == << <<"w">> >>
OutputPath == << <<"w">>, <<"out">> >>

-----------------------------------------------------------------------------
(* The disk: fs.mkdir(p, {recursive: true}) and fs.writeFile(p, data) *)

Prefixes(p) == {SubSeq(p, 1, k) : k \in 0..Len(p)}

\* Variant: mkdir without { recursive: true } semantics for what exists.
MkdirErr_ExistingFails(p) ==
    IF p \in DOMAIN fsFiles \/ p \in fsDirs THEN "EEXIST"
    ELSE IF \E q \in Prefixes(p) : q \in DOMAIN fsFiles THEN "ENOTDIR"
    ELSE "none"

\* Error of a recursive mkdir on the present disk ("none": it succeeds; an
\* existing directory is no error, an existing regular file is).
MkdirErr(p) ==
    IF p \in DOMAIN fsFiles THEN "EEXIST"
    ELSE IF \E q \in Prefixes(p) : q \in DOMAIN fsFiles THEN "ENOTDIR"
    ELSE "none"

MkdirDirs(p) == fsDirs \cup Prefixes(p)

\* Error of writeFile on the present disk (flag 'w': an existing regular file
\* is truncated and rewritten).
WriteErr(p) ==
    IF p \in fsDirs THEN "EISDIR"
    ELSE IF DirName(p) \in DOMAIN fsFiles THEN "ENOTDIR"
    ELSE IF DirName(p) \notin fsDirs THEN "ENOENT"
    ELSE "none"

WriteFiles(p, data) ==
    [q \in DOMAIN fsFiles \cup {p} |-> IF q = p THEN data ELSE fsFiles[q]]

\* Failures the environment can add to any call (disk full, permission denied).
EnvFaults == {"none", "ENOSPC"}

\* Variant: a rejected file-system call is caught and passed over.
IoErr_Ignored(fault, structural) == "none"

\* What an fs call rejects with: a fault of the environment, else what the disk says.
IoErr(fault, structural) == IF fault # "none" THEN fault ELSE structural

NoData == [text |-> <<>>]

-----------------------------------------------------------------------------
(* Errors thrown by EtherscanClient, by the message constructed *)

Err(kind, detail) == [kind |-> kind, detail |-> detail]

Pending == Err("Pending", <<>>)
Success == Err("Success", <<>>)

\* 'Unable to read API key from ~/.etherscankey: ...'
ErrCredential == Err("CredentialError", <<>>)
\* 'Unsupported chain ID: ...'
ErrUnsupportedChain == Err("UnsupportedChain", <<>>)
\* 'Invalid API key'
ErrInvalidApiKey == Err("InvalidApiKey", <<>>)
\* 'Rate limit exceeded'
ErrRateLimited == Err("RateLimited", <<>>)
\* 'API Error: ' + errorMsg
ErrApi(errorMsg) == Err("ApiError", errorMsg)
\* 'No contract found at this address'
ErrNoContract == Err("NoContractFound", <<>>)
\* 'EOA address: ' + address
ErrEoa == Err("EoaAddress", <<>>)
\* 'Unverified contract: ' + address
ErrUnverified == Err("UnverifiedContract", <<>>)
\* 'HTTP Error: ' + status + ' - ' + statusText
ErrHttp(status) == Err("TransportError", <<status>>)
\* the transport library's own error object, rethrown as caught
ErrAxios == Err("AxiosError", <<>>)

-----------------------------------------------------------------------------
(* Responses of the API *)

Entry(src, proxy, impl) == [SourceCode |-> src, Proxy |-> proxy, Implementation |-> impl]

DoubleBrace(body) == <<"{", "{", body, "}", "}">>
SingleBrace(body) == <<"{", body, "}">>

\* Most braces at either end of a source string given to the decoder.
MaxBraces == 2

\* n times the character c.
Repeat(n, c) == [i \in 1..n |-> c]

\* Source strings the decoder is given: nothing, plain text, a JSON text or
\* garbage, between no, one or more opening and closing braces (balanced or
\* not): the plain, the double-brace and the single-brace forms, well-formed
\* and not.
DecoderInputs ==
    {Repeat(o, "{") \o body \o Repeat(c, "}") :
        o \in 0..MaxBraces, c \in 0..MaxBraces,
        body \in {<<>>, <<"pragma">>} \cup {<<b>> : b \in BodyTokens}}

\* Non-empty SourceCode values of the responses: one-file, several-file and
\* no-file results, nested, colliding and escaping paths, in the three forms.
Sources ==
    {<<"pragma">>, SingleBrace("jTwoFiles")}
    \cup {DoubleBrace(b) : b \in {"jWrapped", "jTwoFiles", "jNested", "jFileThenDir",
                                  "jSamePath", "jEscape", "jIndexKeys", "jMetadata",
                                  "jNoSources", "jGarbage"}}

ProxyFields ==
    {<<"1", "0xDEF">>, <<"1", "">>, <<"0", "0xDEF">>, <<"undefined", "undefined">>}

\* Entries with source, and the entries of addresses without verified source.
Entries ==
    {Entry(s, pf[1], pf[2]) : s \in Sources, pf \in ProxyFields}
    \cup {Entry(<<>>, "0", ""), Entry(Undefined, "undefined", "undefined")}

Messages ==
    { Undefined, <<>>, <<"NOTOK">>,
      <<"Invalid", "API", "Key">>, <<"Error!", "invalid", "API", "key">>,
      <<"INVALID", "API", "KEY">>,
      <<"Max", "rate", "limit", "reached", ",", "retry">> }

NoResp ==
    [transport |-> "none", http |-> "none", status |-> "undefined",
     message |-> Undefined, text |-> Undefined, list |-> <<>>, hasList |-> FALSE]

\* axios rejects: without a response, or with one (a non-2xx status).
FailedResponses ==
    {[NoResp EXCEPT !.transport = "noResponse"],
     [NoResp EXCEPT !.transport = "httpError", !.http = "500"]}

\* status is not '1': message and result are texts (or absent).
StatusFailResponses ==
    {[NoResp EXCEPT !.transport = "ok", !.status = st, !.message = m, !.text = t] :
        st \in {"0"}, m \in Messages, t \in Messages}
    \cup {[NoResp EXCEPT !.transport = "ok", !.message = <<"NOTOK">>]}

\* status is '1': result is absent, or a list of at most one entry.
StatusOkResponses ==
    {[NoResp EXCEPT !.transport = "ok", !.status = "1", !.message = <<"OK">>]}
    \cup {[NoResp EXCEPT !.transport = "ok", !.status = "1", !.message = <<"OK">>,
                         !.hasList = TRUE, !.list = l] :
            l \in {<<>>} \cup {<<e>> : e \in Entries}}

PrimaryResponses == FailedResponses \cup StatusFailResponses \cup StatusOkResponses

NoProbe == [transport |-> "none", data |-> "none", status |-> "undefined", result |-> "undefined"]

\* eth_getCode: the request fails, the body is null, or it is an envelope.
ProbeResponses ==
    {[NoProbe EXCEPT !.transport = "error"],
     [NoProbe EXCEPT !.transport = "ok", !.data = "null"]}
    \cup {[transport |-> "ok", data |-> "object", status |-> st, result |-> r] :
            st \in {"1", "0", "undefined"}, r \in {"0x", "", "0x6080", "undefined"}}

-----------------------------------------------------------------------------
(* EtherscanClient: classification *)

\* getApiKey: whether a key is obtained (readable: the read of ~/.etherscankey
\* succeeds; it is not attempted when this.apiKey is truthy).
getApiKey(key, readable) == ~FalsyStr(key) \/ readable

\* Variant: the registry lookup never rejects.
validateChainId_AcceptsAll(c) == TRUE

validateChainId(c) == c \in CHAIN_CONFIGS

\* response.data.message || response.data.result || 'Failed to fetch contract source'
ErrorMsg(r) ==
    IF ~Falsy(r.message) THEN r.message
    ELSE IF ~Falsy(r.text) THEN r.text
    ELSE <<"Failed", "to", "fetch", "contract", "source">>

\* The error thrown for a response whose status is not '1'.
StatusError(r) ==
    LET errorMsg == ErrorMsg(r)
    IN  IF \/ Includes(errorMsg, <<"Invalid", "API", "Key">>)
           \/ Includes(errorMsg, <<"invalid", "API", "key">>)
        THEN ErrInvalidApiKey
        ELSE IF Includes(errorMsg, <<"Max", "rate", "limit", "reached">>)
        THEN ErrRateLimited
        ELSE ErrApi(errorMsg)

\* Variant: without the branch for a result of '0x' under a status other than '1'.
isContract_StatusOnly(p) ==
    IF p.transport # "ok" \/ p.data # "object" THEN TRUE
    ELSE IF p.status = "1" /\ ~FalsyStr(p.result) THEN p.result # "0x" /\ p.result # ""
    ELSE TRUE

\* isContract: the value returned once the key is obtained and the request answered.
isContract(p) ==
    IF p.transport # "ok" \/ p.data # "object" THEN TRUE
    ELSE IF p.status = "1" /\ ~FalsyStr(p.result) THEN p.result # "0x" /\ p.result # ""
    ELSE IF p.result = "0x" THEN FALSE
    ELSE TRUE

NoProxyInfo == [present |-> FALSE, isProxy |-> FALSE, implementation |-> "undefined"]

\* Variant: the flag is tested for truthiness instead of against '1'.
ProxyInfo_Truthy(entry) ==
    IF ~FalsyStr(entry.Proxy)
    THEN [present |-> TRUE, isProxy |-> TRUE,
          implementation |-> IF FalsyStr(entry.Implementation) THEN "null"
                             ELSE entry.Implementation]
    ELSE [present |-> FALSE, isProxy |-> FALSE, implementation |-> "undefined"]

\* contract.proxyInfo as set by fetchContractSource.
ProxyInfo(entry) ==
    IF entry.Proxy = "1"
    THEN [present |-> TRUE, isProxy |-> TRUE,
          implementation |-> IF FalsyStr(entry.Implementation) THEN "null"
                             ELSE entry.Implementation]
    ELSE NoProxyInfo

NoContract ==
    [SourceCode |-> Undefined, Proxy |-> "undefined", Implementation |-> "undefined",
     proxyInfo |-> NoProxyInfo]

WithProxyInfo(entry, info) ==
    [SourceCode |-> entry.SourceCode, Proxy |-> entry.Proxy,
     Implementation |-> entry.Implementation, proxyInfo |-> info]

\* The metadata object of saveContractFiles, as JSON.stringify renders it
\* (proxyInfo is left out when contract.proxyInfo is not set).
Metadata(c) ==
    [proxy |-> IF FalsyStr(c.Proxy) THEN "0" ELSE c.Proxy,
     implementation |-> IF FalsyStr(c.Implementation) THEN "" ELSE c.Implementation,
     proxyInfo |-> IF c.proxyInfo.present THEN c.proxyInfo ELSE NoProxyInfo]

MetadataPath == PathJoin(OutputPath, <<"metadata.json">>)

-----------------------------------------------------------------------------
(* The fetch command: one invocation after another against the same disk *)

Init ==
    /\ pc = "exited"
    /\ run = 0
    /\ chainId = 1
    /\ apiKey = "undefined"
    /\ requests = <<>>
    /\ resp = NoResp
    /\ probe = NoProbe
    /\ contract = NoContract
    /\ outcome = Pending
    /\ files = <<>>
    /\ idx = 1
    /\ savedFiles = <<>>
    /\ saveResult = "pending"
    /\ wlog = <<>>
    /\ fsDirs = Prefixes(Cwd)
    /\ fsFiles = <<>>
    /\ fsAtStart = [dirs |-> Prefixes(Cwd), files |-> <<>>]
    /\ exitCode = "none"

fetchVars == <<requests, resp, probe, contract, outcome>>
saveVars == <<files, idx, savedFiles, saveResult, wlog>>
diskVars == <<fsDirs, fsFiles>>
argVars == <<run, chainId, apiKey, fsAtStart>>

\* The command starts: options parsed, mkdir of the output path with its
\* error ignored, client constructed, fetchContractSource called and
\* suspended at its first await (getApiKey).
Invoke(c, k, fault) ==
    /\ pc = "exited"
    /\ run < MaxRuns
    /\ run' = run + 1
    /\ chainId' = c
    /\ apiKey' = k
    /\ requests' = <<>>
    /\ resp' = NoResp
    /\ probe' = NoProbe
    /\ contract' = NoContract
    /\ outcome' = Pending
    /\ files' = <<>>
    /\ idx' = 1
    /\ savedFiles' = <<>>
    /\ saveResult' = "pending"
    /\ wlog' = <<>>
    /\ fsDirs' = IF IoErr(fault, MkdirErr(OutputPath)) = "none"
                 THEN MkdirDirs(OutputPath) ELSE fsDirs
    /\ fsFiles' = fsFiles
    /\ fsAtStart' = [dirs |-> fsDirs, files |-> fsFiles]
    /\ exitCode' = "running"
    /\ pc' = "getApiKey"

\* An error thrown by fetchContractSource reaches the command's catch: exit(1).
FetchThrows(err) ==
    /\ outcome' = err
    /\ pc' = "exited"
    /\ exitCode' = 1

\* fetchContractSource resumes with the key: validateChainId, then the
\* getsourcecode request is issued.
FetchStart(readable) ==
    /\ pc = "getApiKey"
    /\ IF ~getApiKey(apiKey, readable)
       THEN FetchThrows(ErrCredential) /\ UNCHANGED requests
       ELSE IF ~validateChainId(chainId)
       THEN FetchThrows(ErrUnsupportedChain) /\ UNCHANGED requests
       ELSE /\ requests' = Append(requests, "getsourcecode")
            /\ pc' = "awaitSource"
            /\ UNCHANGED <<outcome, exitCode>>
    /\ UNCHANGED <<resp, probe, contract, saveVars, diskVars, argVars>>

\* The getsourcecode request settles with r.
FetchResponse(r) ==
    /\ pc = "awaitSource"
    /\ resp' = r
    /\ IF r.transport = "noResponse"
       THEN FetchThrows(ErrAxios) /\ UNCHANGED <<contract, files>>
       ELSE IF r.transport = "httpError"
       THEN FetchThrows(ErrHttp(r.http)) /\ UNCHANGED <<contract, files>>
       ELSE IF r.status # "1"
       THEN FetchThrows(StatusError(r)) /\ UNCHANGED <<contract, files>>
       ELSE IF ~r.hasList \/ Len(r.list) = 0
       THEN FetchThrows(ErrNoContract) /\ UNCHANGED <<contract, files>>
       ELSE IF Falsy(r.list[1].SourceCode)
       THEN \* isContract is called and suspended at its getApiKey
            /\ contract' = WithProxyInfo(r.list[1], NoProxyInfo)
            /\ pc' = "probeGetApiKey"
            /\ UNCHANGED <<outcome, exitCode, files>>
       ELSE \* the contract is returned; saveContractFiles decodes the source
            \* and is suspended at the mkdir of the output path
            /\ contract' = WithProxyInfo(r.list[1], ProxyInfo(r.list[1]))
            /\ outcome' = Success
            /\ files' = parseSourceCode(r.list[1].SourceCode)
            /\ pc' = "saveMkdir"
            /\ UNCHANGED exitCode
    /\ UNCHANGED <<requests, probe, idx, savedFiles, saveResult, wlog, diskVars, argVars>>

\* isContract resumes with the key and issues the eth_getCode request; a
\* failure of getApiKey is thrown outside isContract's try.
ProbeStart(readable) ==
    /\ pc = "probeGetApiKey"
    /\ IF ~getApiKey(apiKey, readable)
       THEN FetchThrows(ErrCredential) /\ UNCHANGED requests
       ELSE /\ requests' = Append(requests, "eth_getCode")
            /\ pc' = "awaitProbe"
            /\ UNCHANGED <<outcome, exitCode>>
    /\ UNCHANGED <<resp, probe, contract, saveVars, diskVars, argVars>>

\* The eth_getCode request settles with p; isContract returns and
\* fetchContractSource throws according to it.
ProbeResponse(p) ==
    /\ pc = "awaitProbe"
    /\ probe' = p
    /\ FetchThrows(IF ~isContract(p) THEN ErrEoa ELSE ErrUnverified)
    /\ UNCHANGED <<requests, resp, contract, saveVars, diskVars, argVars>>

\* Variant: the loop stops one file early.
LoopNext_SkipsLast(i, n) == IF i >= n THEN "saveMetadata" ELSE "saveFileMkdir"

\* for (const file of files): where saveContractFiles goes with i - 1 of the n
\* files written.
LoopNext(i, n) == IF i > n THEN "saveMetadata" ELSE "saveFileMkdir"

\* A failed file-system call rejects saveContractFiles; the command's catch: exit(1).
SaveThrows(err) ==
    /\ saveResult' = err
    /\ pc' = "exited"
    /\ exitCode' = 1

\* await fs.mkdir(localPath, { recursive: true })
SaveMkdirRoot(fault) ==
    /\ pc = "saveMkdir"
    /\ LET err == IoErr(fault, MkdirErr(OutputPath))
       IN  IF err # "none"
           THEN SaveThrows(err) /\ UNCHANGED <<wlog, fsDirs>>
           ELSE /\ fsDirs' = MkdirDirs(OutputPath)
                /\ wlog' = Append(wlog, [op |-> "mkdir", path |-> OutputPath, data |-> NoData])
                /\ pc' = LoopNext(idx, Len(files))
                /\ UNCHANGED <<saveResult, exitCode>>
    /\ UNCHANGED <<fetchVars, files, idx, savedFiles, fsFiles, argVars>>

\* for (const file of files): await fs.mkdir(fileDir, { recursive: true })
SaveFileMkdir(fault) ==
    /\ pc = "saveFileMkdir"
    /\ LET fileDir == DirName(PathJoin(OutputPath, files[idx].path))
           err == IoErr(fault, MkdirErr(fileDir))
       IN  IF err # "none"
           THEN SaveThrows(err) /\ UNCHANGED <<wlog, fsDirs>>
           ELSE /\ fsDirs' = MkdirDirs(fileDir)
                /\ wlog' = Append(wlog, [op |-> "mkdir", path |-> fileDir, data |-> NoData])
                /\ pc' = "saveFileWrite"
                /\ UNCHANGED <<saveResult, exitCode>>
    /\ UNCHANGED <<fetchVars, files, idx, savedFiles, fsFiles, argVars>>

\* await fs.writeFile(filePath, file.content, 'utf-8'); savedFiles.push(filePath)
SaveFileWrite(fault) ==
    /\ pc = "saveFileWrite"
    /\ LET filePath == PathJoin(OutputPath, files[idx].path)
           data == [text |-> files[idx].content]
           err == IoErr(fault, WriteErr(filePath))
       IN  IF err # "none"
           THEN SaveThrows(err) /\ UNCHANGED <<wlog, fsFiles, savedFiles, idx>>
           ELSE /\ fsFiles' = WriteFiles(filePath, data)
                /\ wlog' = Append(wlog, [op |-> "write", path |-> filePath, data |-> data])
                /\ savedFiles' = Append(savedFiles, filePath)
                /\ idx' = idx + 1
                /\ pc' = LoopNext(idx + 1, Len(files))
                /\ UNCHANGED <<saveResult, exitCode>>
    /\ UNCHANGED <<fetchVars, files, fsDirs, argVars>>

\* await fs.writeFile(metadataPath, JSON.stringify(metadata)); the list is
\* returned and the command ends.
SaveMetadata(fault) ==
    /\ pc = "saveMetadata"
    /\ LET data == [json |-> Metadata(contract)]
           err == IoErr(fault, WriteErr(MetadataPath))
       IN  IF err # "none"
           THEN SaveThrows(err) /\ UNCHANGED <<wlog, fsFiles, savedFiles>>
           ELSE /\ fsFiles' = WriteFiles(MetadataPath, data)
                /\ wlog' = Append(wlog, [op |-> "write", path |-> MetadataPath, data |-> data])
                /\ savedFiles' = Append(savedFiles, MetadataPath)
                /\ saveResult' = "returned"
                /\ pc' = "exited"
                /\ exitCode' = 0
    /\ UNCHANGED <<fetchVars, files, idx, fsDirs, argVars>>

Next ==
    \/ \E c \in ChainIds, k \in {"k", "undefined"}, f \in EnvFaults : Invoke(c, k, f)
    \/ \E readable \in BOOLEAN : FetchStart(readable)
    \/ \E r \in PrimaryResponses : FetchResponse(r)
    \/ \E readable \in BOOLEAN : ProbeStart(readable)
    \/ \E p \in ProbeResponses : ProbeResponse(p)
    \/ \E f \in EnvFaults : SaveMkdirRoot(f)
    \/ \E f \in EnvFaults : SaveFileMkdir(f)
    \/ \E f \in EnvFaults : SaveFileWrite(f)
    \/ \E f \in EnvFaults : SaveMetadata(f)

Spec == Init /\ [][Next]_vars

-----------------------------------------------------------------------------
(* parseSourceCode on its own, applied to any source string *)

\* A client with nothing fetched or saved, and a source string at hand.
DecodeInit ==
    /\ pc = "decode"
    /\ \E s \in DecoderInputs : contract = [NoContract EXCEPT !.SourceCode = s]
    /\ run = 0
    /\ chainId = 1
    /\ apiKey = "undefined"
    /\ requests = <<>>
    /\ resp = NoResp
    /\ probe = NoProbe
    /\ outcome = Pending
    /\ files = <<>>
    /\ idx = 1
    /\ savedFiles = <<>>
    /\ saveResult = "pending"
    /\ wlog = <<>>
    /\ fsDirs = Prefixes(Cwd)
    /\ fsFiles = <<>>
    /\ fsAtStart = [dirs |-> Prefixes(Cwd), files |-> <<>>]
    /\ exitCode = "none"

\* const files = this.parseSourceCode(contract.SourceCode)
Decode ==
    /\ pc = "decode"
    /\ files' = parseSourceCode(contract.SourceCode)
    /\ pc' = "decoded"
    /\ UNCHANGED <<run, chainId, apiKey, requests, resp, probe, contract, outcome, idx,
                   savedFiles, saveResult, wlog, fsDirs, fsFiles, fsAtStart, exitCode>>

DecodeNext == Decode

SpecDecode == DecodeInit /\ [][DecodeNext]_vars

-----------------------------------------------------------------------------
(* Properties of fetchContractSource *)

\* The invocation has ended (the command returned or called process.exit).
Ended == run >= 1 /\ pc = "exited"

\* The getsourcecode response has status '1' and a first entry without source.
EmptySourceResponse ==
    /\ resp.transport = "ok"
    /\ resp.status = "1"
    /\ resp.hasList
    /\ Len(resp.list) >= 1
    /\ Falsy(resp.list[1].SourceCode)

\* C1 (as stated): for every chain id outside the registry the invocation
\* issues no request at any point and ends in the UnsupportedChain failure.
C1_UnsupportedChainAlways ==
    (run >= 1 /\ chainId \notin CHAIN_CONFIGS) =>
        /\ requests = <<>>
        /\ (pc = "exited" => outcome = ErrUnsupportedChain)

\* C1 (amended): for every chain id outside the registry the invocation issues
\* no request at any point, never gets past the key lookup, and ends in the
\* UnsupportedChain failure whenever the API key is obtained (always when one
\* is supplied); otherwise it ends in the failure of the key lookup, which
\* precedes the validation.
C1_UnsupportedChainNoRequest ==
    (run >= 1 /\ chainId \notin CHAIN_CONFIGS) =>
        /\ requests = <<>>
        /\ resp = NoResp /\ probe = NoProbe
        /\ pc \in {"getApiKey", "exited"}
        /\ (pc = "exited" =>
              /\ exitCode = 1
              /\ outcome \in {ErrUnsupportedChain, ErrCredential}
              /\ (outcome = ErrCredential => FalsyStr(apiKey)))

C1_Witness ==
    /\ Ended
    /\ chainId \notin CHAIN_CONFIGS
    /\ outcome = ErrUnsupportedChain
    /\ requests = <<>>

\* C2 (as stated): a returned record never has empty source; an entry whose
\* source is empty or absent always ends the fetch in EoaAddress or
\* UnverifiedContract, and the decoder and the writer never see empty source.
C2_EmptySourceResolved ==
    /\ (outcome = Success => ~Falsy(contract.SourceCode))
    /\ (pc \in {"saveMkdir", "saveFileMkdir", "saveFileWrite", "saveMetadata"}
          => ~Falsy(contract.SourceCode))
    /\ ((Ended /\ EmptySourceResponse) => outcome \in {ErrEoa, ErrUnverified})

\* The probe answered and its result is '0x'.
ProbeSaysNoCode ==
    probe.transport = "ok" /\ probe.data = "object" /\ probe.result = "0x"

\* C3: an entry without source and a probe whose result is '0x', whatever
\* the probe's status flag, end the fetch in the EoaAddress failure.
C3_EoaWhenNoBytecode ==
    (Ended /\ EmptySourceResponse /\ ProbeSaysNoCode) =>
        /\ outcome = ErrEoa
        /\ requests = <<"getsourcecode", "eth_getCode">>

C3_Witness ==
    /\ Ended /\ EmptySourceResponse /\ ProbeSaysNoCode
    /\ probe.status # "1"
    /\ outcome = ErrEoa

\* C4 (as stated): an entry without source ends the fetch in
\* UnverifiedContract whenever the probe reports bytecode, is inconclusive or
\* fails in any way; a failed probe gives no other kind of error.
C4_UnverifiedUnlessNoBytecode ==
    (Ended /\ EmptySourceResponse /\ ~ProbeSaysNoCode) => outcome = ErrUnverified

\* Lower-casing of one word of the message vocabulary, for matching in any
\* letter case.
LowerWord(w) ==
    CASE w \in {"Invalid", "INVALID", "invalid"} -> "invalid"
      [] w \in {"API", "api"} -> "api"
      [] w \in {"Key", "KEY", "key"} -> "key"
      [] w \in {"Max", "MAX", "max"} -> "max"
      [] OTHER -> w

ToLowerCase(s) == [i \in DOMAIN s |-> LowerWord(s[i])]

\* The text the claim reads: the message and the result of the response.
TextContains(r, sub) ==
    \/ Includes(ToLowerCase(r.message), ToLowerCase(sub))
    \/ Includes(ToLowerCase(r.text), ToLowerCase(sub))

\* C5 (as stated): with a failure status the outcome is InvalidApiKey if the
\* message/result text contains "invalid api key" in any letter case, else
\* RateLimited if it contains "max rate limit reached", else ApiError.
C5_StatusFailureByText ==
    (Ended /\ resp.transport = "ok" /\ resp.status # "1") =>
        outcome.kind =
            IF TextContains(resp, <<"invalid", "api", "key">>) THEN "InvalidApiKey"
            ELSE IF TextContains(resp, <<"max", "rate", "limit", "reached">>) THEN "RateLimited"
            ELSE "ApiError"

\* C6 (as stated): a transport failure of the getsourcecode request, with or
\* without an HTTP response, ends the fetch in TransportError, and the
\* transport library's error object never leaves the fetch.
C6_TransportClassified ==
    /\ ((Ended /\ resp.transport \in {"noResponse", "httpError"})
          => outcome.kind = "TransportError")
    /\ outcome.kind # "AxiosError"

-----------------------------------------------------------------------------
(* Properties of saveContractFiles *)

\* C7 (as stated): every file written and every directory created lies
\* inside the output root, whatever paths the source map holds.
C7_WritesInsideOutputRoot ==
    /\ \A p \in DOMAIN fsFiles : IsPrefix(OutputPath, p)
    /\ \A d \in fsDirs : IsPrefix(OutputPath, d) \/ d \in Prefixes(OutputPath)

\* C8: the returned record has proxyInfo (isProxy true, implementation the
\* entry's Implementation, null when that is empty or absent) exactly when
\* the entry's Proxy is '1', and the metadata.json of a completed save holds
\* a proxyInfo object, equal to the record's, exactly when the record has one.
C8_ProxyInfoIffSentinel ==
    /\ outcome = Success =>
          LET e == resp.list[1]
              info == contract.proxyInfo
          IN  /\ info.present <=> e.Proxy = "1"
              /\ info.present =>
                    /\ info.isProxy
                    /\ info.implementation =
                          IF e.Implementation \in {"", "undefined"} THEN "null"
                          ELSE e.Implementation
    /\ saveResult = "returned" =>
          LET m == fsFiles[MetadataPath].json
          IN  /\ m.proxyInfo.present <=> contract.proxyInfo.present
              /\ m.proxyInfo.present <=> resp.list[1].Proxy = "1"
              /\ m.proxyInfo.present => m.proxyInfo = contract.proxyInfo

C8_Witness ==
    /\ saveResult = "returned"
    /\ resp.list[1].Proxy = "1"
    /\ resp.list[1].Implementation = "0xDEF"
    /\ fsFiles[MetadataPath].json.proxyInfo.present
    /\ fsFiles[MetadataPath].json.proxyInfo.implementation = "0xDEF"

\* The writeFile calls that succeeded in this invocation, in order.
Writes == SelectSeq(wlog, LAMBDA e : e.op = "write")

\* C9: the source files are written one at a time in the order of the
\* decoded list, metadata.json only after all of them, and a completed save
\* returns the written paths in write order: one per decoded file, then
\* metadata.json (length = number of decoded files + 1).
C9_WriteOrder ==
    outcome = Success =>
        /\ files = parseSourceCode(contract.SourceCode)
        /\ savedFiles = [i \in DOMAIN Writes |-> Writes[i].path]
        /\ Len(Writes) <= Len(files) + 1
        /\ \A i \in DOMAIN Writes :
              IF i <= Len(files)
              THEN /\ Writes[i].path = PathJoin(OutputPath, files[i].path)
                   /\ Writes[i].data = [text |-> files[i].content]
              ELSE /\ Writes[i].path = MetadataPath
                   /\ Writes[i].data = [json |-> Metadata(contract)]
        /\ saveResult = "returned" <=> Len(Writes) = Len(files) + 1
        /\ saveResult = "returned" =>
              /\ Len(savedFiles) = Len(files) + 1
              /\ savedFiles[Len(savedFiles)] = MetadataPath

C9_Witness ==
    /\ saveResult = "returned"
    /\ Len(files) = 3
    /\ Len(savedFiles) = 4

\* The paths and the contents saveContractFiles sets out to write, in order.
Targets == [i \in 1..Len(files) |-> PathJoin(OutputPath, files[i].path)] \o <<MetadataPath>>

TargetData(i) ==
    IF i <= Len(files) THEN [text |-> files[i].content] ELSE [json |-> Metadata(contract)]

\* Directories the write of target i needs.
DirsNeeded(i) == Prefixes(DirName(Targets[i])) \cup Prefixes(OutputPath)

\* A path to be written as a file is needed as a directory by this save.
OwnKindConflict ==
    \E i, j \in DOMAIN Targets : Targets[i] \in DirsNeeded(j)

\* A path to be written as a file was a directory, or a directory needed was
\* a regular file, when the invocation started.
DiskKindConflict ==
    \E i \in DOMAIN Targets :
        \/ Targets[i] \in fsAtStart.dirs
        \/ \E d \in DirsNeeded(i) : d \in DOMAIN fsAtStart.files

StructuralErrors == {"EEXIST", "ENOTDIR", "EISDIR", "ENOENT"}

\* What a completed save leaves: each target holds the last content this
\* save wrote to it, no other file appeared and no other file changed.
SavedContentOnDisk ==
    /\ \A i \in DOMAIN Targets :
          (\A j \in DOMAIN Targets : j > i => Targets[j] # Targets[i])
              => /\ Targets[i] \in DOMAIN fsFiles
                 /\ fsFiles[Targets[i]] = TargetData(i)
    /\ DOMAIN fsFiles = DOMAIN fsAtStart.files \cup {Targets[i] : i \in DOMAIN Targets}
    /\ \A p \in DOMAIN fsAtStart.files :
          p \notin {Targets[i] : i \in DOMAIN Targets} => fsFiles[p] = fsAtStart.files[p]

\* An earlier save into the output directory ran to its end.
EarlierSaveCompleted == run >= 2 /\ MetadataPath \in DOMAIN fsAtStart.files

\* C10 (as stated): after a completed save, a second save of any record that
\* could be saved into a fresh directory succeeds (no error is due to what is
\* on disk), and every path it wrote holds its content.
C10_SecondSaveSucceeds ==
    (Ended /\ outcome = Success /\ EarlierSaveCompleted /\ ~OwnKindConflict) =>
        /\ saveResult \notin StructuralErrors
        /\ saveResult = "returned" => SavedContentOnDisk

\* C10 (amended): a save fails for a reason other than an I/O fault of the
\* environment exactly when there is a file/directory kind conflict: a path
\* it writes as a file is a directory (on disk or needed by the same save),
\* or a directory it needs is a regular file on disk.  Without such a
\* conflict a repeated save succeeds, every path it wrote holds the content
\* it wrote last, existing files are overwritten, and no other file appears
\* or changes.
C10_RepeatedSaveOverwrites ==
    (Ended /\ outcome = Success) =>
        /\ saveResult \in StructuralErrors => (OwnKindConflict \/ DiskKindConflict)
        /\ (OwnKindConflict \/ DiskKindConflict) => saveResult # "returned"
        /\ saveResult \in {"returned"} \cup StructuralErrors \cup (EnvFaults \ {"none"})
        /\ saveResult = "returned" => SavedContentOnDisk

C10_Witness ==
    /\ Ended /\ saveResult = "returned" /\ EarlierSaveCompleted
    /\ \E i \in 1..Len(files) :
          /\ Targets[i] \in DOMAIN fsAtStart.files
          /\ Targets[i] # MetadataPath
          /\ fsAtStart.files[Targets[i]] # fsFiles[Targets[i]]
    /\ fsAtStart.files[MetadataPath] # fsFiles[MetadataPath]

-----------------------------------------------------------------------------
(* Failure of saveContractFiles *)

\* The errors a file-system call of saveContractFiles can reject with.
IoErrors == StructuralErrors \cup (EnvFaults \ {"none"})

SavePcs == {"saveMkdir", "saveFileMkdir", "saveFileWrite", "saveMetadata"}

\* The error with which the disk, as it is, refuses the file-system call
\* saveContractFiles is about to make ("none": the disk accepts it).
CallErr ==
    CASE pc = "saveMkdir" -> MkdirErr(OutputPath)
      [] pc = "saveFileMkdir" -> MkdirErr(DirName(PathJoin(OutputPath, files[idx].path)))
      [] pc = "saveFileWrite" -> WriteErr(PathJoin(OutputPath, files[idx].path))
      [] pc = "saveMetadata" -> WriteErr(MetadataPath)
      [] OTHER -> "none"

\* The save was rejected by a file-system call.
SaveFailed == Ended /\ saveResult \in IoErrors

\* The step at which a file-system call rejects: nothing is created or
\* written by it, no path is added to the list, the fetch outcome is left
\* as it was, and the command's catch receives the error of that call.
SaveAbortStep ==
    (saveResult = "pending" /\ saveResult' \in IoErrors) =>
        /\ pc \in SavePcs
        /\ pc' = "exited"
        /\ exitCode' = 1
        /\ outcome = Success
        /\ CallErr # "none" => saveResult' \in {CallErr} \cup (EnvFaults \ {"none"})
        /\ UNCHANGED <<outcome, fsDirs, fsFiles, wlog, savedFiles, idx, contract>>

\* A call the disk refuses is never passed over: the next step of the save
\* is its rejection.
RefusedCallRejects ==
    (pc \in SavePcs /\ CallErr # "none") => saveResult' \in IoErrors

\* What a rejected save leaves behind: the writes made before the failing
\* step and nothing else.
SaveAborted ==
    SaveFailed =>
        /\ outcome = Success
        /\ exitCode = 1
        /\ saveResult \notin {"returned", "pending"}
        /\ Len(Writes) <= Len(files)
        /\ \A i \in DOMAIN Writes :
              /\ Writes[i].path = PathJoin(OutputPath, files[i].path)
              /\ Writes[i].data = [text |-> files[i].content]
        /\ \A i \in DOMAIN wlog : wlog[i].data # [json |-> Metadata(contract)]
        /\ savedFiles = [i \in DOMAIN Writes |-> Writes[i].path]
        /\ DOMAIN fsFiles = DOMAIN fsAtStart.files \cup {Writes[i].path : i \in DOMAIN Writes}
        /\ \A p \in DOMAIN fsAtStart.files :
              p \notin {Writes[i].path : i \in DOMAIN Writes} => fsFiles[p] = fsAtStart.files[p]

-----------------------------------------------------------------------------
(* Properties of parseSourceCode *)

\* parseSourceCode has been applied to contract.SourceCode; files is its result.
Decoded == pc = "decoded"

\* The JSON text of a source string in brace form: what is between the outer
\* braces of the double-brace form, the whole string otherwise.
JsonOf(s) == IF StartsWith(s, <<"{", "{">>) THEN JSONparse(Slice1(s)) ELSE JSONparse(s)

\* The members of the sources mapping in the order of the text.
SourcePairs(s) == JsonOf(s).value.sources.pairs

\* A source entry that is not an object with an optional content: null, a
\* string.
WrongShape(entry) == entry.kind # "object"

\* A string in brace form that is no structured multi-file data: its JSON
\* does not parse, or a source entry has the wrong shape.
Undecodable(s) ==
    /\ StartsWith(s, <<"{">>)
    /\ \/ ~JsonOf(s).ok
       \/ \E i \in DOMAIN SourcePairs(s) : WrongShape(SourcePairs(s)[i].entry)

\* C12: the decoder returns a file list for every input string, and whenever
\* the input cannot be decoded as structured multi-file data (JSON that does
\* not parse, in either brace form, or source entries of the wrong shape) the
\* list is exactly one file Contract.sol whose content is the whole input.
C12_UndecodableIsSingleFile ==
    Decoded =>
        /\ files \in Seq([path : Seq(STRING), content : Seq(STRING)])
        /\ Undecodable(contract.SourceCode) => files = SingleFile(contract.SourceCode)

\* A string the decoder takes as structured multi-file data: brace form, the
\* JSON parses, no source entry is null, and in the single-brace form the
\* language is Solidity and there is a sources mapping.
Accepted(s) ==
    /\ StartsWith(s, <<"{">>)
    /\ JsonOf(s).ok
    /\ \A i \in DOMAIN SourcePairs(s) : SourcePairs(s)[i].entry.kind # "null"
    /\ ~StartsWith(s, <<"{", "{">>) =>
          /\ JsonOf(s).value.language = "Solidity"
          /\ JsonOf(s).value.sources.kind = "object"

\* key starts with a wrapper segment "solc_", digits and dots, "/", and path
\* is what follows that segment.
WrapperRemoved(key, path) ==
    \E n \in 1..Len(key) :
        /\ Len(key) >= n + 2
        /\ key[1] = "solc_"
        /\ \A j \in 2..(n + 1) : key[j] \in DigitOrDot
        /\ key[n + 2] = "/"
        /\ path = SubSeq(key, n + 3, Len(key))

HasWrapper(key) == \E n \in 0..Len(key) : WrapperRemoved(key, SubSeq(key, n + 1, Len(key)))

\* path is key without its leading wrapper segment, if it has one, and key
\* itself otherwise.
PathOfKey(key, path) == IF HasWrapper(key) THEN WrapperRemoved(key, path) ELSE path = key

\* Place of the first member named k in the text of the mapping.
FirstPlace(pairs, k) ==
    CHOOSE i \in DOMAIN pairs :
        /\ pairs[i].key = k
        /\ \A j \in DOMAIN pairs : pairs[j].key = k => i <= j

\* C13 (as stated): for every entry of a parsed sources mapping one file is
\* emitted, in the order the entries are met in the mapping, whose path is
\* the key with at most one leading wrapper segment removed and the rest
\* unchanged.
C13_OneFilePerEntryInTextOrder ==
    (Decoded /\ Accepted(contract.SourceCode)) =>
        LET pairs == SourcePairs(contract.SourceCode)
        IN  /\ Len(files) = Len(pairs)
            /\ \A i \in DOMAIN pairs :
                  i \in DOMAIN files => PathOfKey(pairs[i].key, files[i].path)

\* C13 (amended): for a parsed sources mapping one file is emitted per
\* distinct key, in the property order of the parsed object: keys that are
\* array indices first, in ascending numeric order, then the other keys in
\* the order of their first appearance in the text, a repeated key counting
\* once.  The path of each file is its key with at most one leading wrapper
\* segment solc_<digits and dots>/ removed and every other character and
\* directory segment unchanged; a key without that prefix is emitted
\* unchanged.
C13_OneFilePerKeyInPropertyOrder ==
    (Decoded /\ Accepted(contract.SourceCode)) =>
        LET pairs == SourcePairs(contract.SourceCode)
            es == ObjectEntries(pairs)
        IN  /\ Len(files) = Len(es)
            /\ \A n \in DOMAIN es :
                  n \in DOMAIN files => PathOfKey(es[n].key, files[n].path)
            /\ {es[n].key : n \in DOMAIN es} = {pairs[i].key : i \in DOMAIN pairs}
            /\ \A n, m \in DOMAIN es :
                  n < m =>
                     /\ es[n].key # es[m].key
                     /\ IF IsIndexKey(es[m].key)
                        THEN IsIndexKey(es[n].key) /\ NumVal(es[n].key) < NumVal(es[m].key)
                        ELSE \/ IsIndexKey(es[n].key)
                             \/ FirstPlace(pairs, es[n].key) < FirstPlace(pairs, es[m].key)

\* A mapping of several entries is decoded, one key has two wrapper segments
\* in a row, and only the first of them is gone from its path.
C13_Witness ==
    /\ Decoded /\ Accepted(contract.SourceCode)
    /\ Len(files) >= 2
    /\ \E n \in DOMAIN files :
          /\ HasWrapper(ObjectEntries(SourcePairs(contract.SourceCode))[n].key)
          /\ HasWrapper(files[n].path)

-----------------------------------------------------------------------------
(* Order of the steps of one invocation *)

\* The eth_getCode request of this invocation has been issued.
ProbeIssued == \E i \in DOMAIN requests : requests[i] = "eth_getCode"

\* The getsourcecode response arrived with the success flag, a non-empty
\* result list and an empty or absent source field.
ProbeCalledFor ==
    /\ resp.transport = "ok"
    /\ resp.status = "1"
    /\ resp.hasList
    /\ Len(resp.list) >= 1
    /\ resp.list[1].SourceCode \in {<<>>, Undefined}

\* C14: within one invocation the steps are strictly sequential with no
\* retry: getsourcecode is requested at most once, eth_getCode at most once
\* and only after the getsourcecode response arrived with the success flag,
\* a non-empty result list and an empty or absent source; after a
\* status-failure response, an empty list or a non-empty source there is no
\* probe; one request is outstanding at a time and nothing is written
\* before the fetch has returned.
C14_SequentialNoRetry ==
    run >= 1 =>
        /\ requests \in {<<>>, <<"getsourcecode">>, <<"getsourcecode", "eth_getCode">>}
        /\ ProbeIssued => ProbeCalledFor
        /\ (resp # NoResp /\ ~ProbeCalledFor) => (~ProbeIssued /\ probe = NoProbe)
        /\ pc = "getApiKey" => requests = <<>>
        /\ pc = "awaitSource" => (requests = <<"getsourcecode">> /\ resp = NoResp)
        /\ pc = "probeGetApiKey" => (requests = <<"getsourcecode">> /\ ProbeCalledFor)
        /\ pc = "awaitProbe" => (ProbeIssued /\ probe = NoProbe)
        /\ probe # NoProbe => (ProbeIssued /\ Ended)
        /\ pc \in SavePcs => (requests = <<"getsourcecode">> /\ resp # NoResp)
        /\ wlog # <<>> => (outcome = Success /\ ~ProbeIssued)

\* An invocation that made both requests, one after the other, has ended.
C14_Witness ==
    /\ Ended
    /\ requests = <<"getsourcecode", "eth_getCode">>
    /\ probe # NoProbe

====
